---- MODULE Spec2Model ----
(***************************************************************************)
(* A model of l20n.rs: the compiler (src/src/compiler.rs: compile,         *)
(* add_default_indices), the resolver (the Resolve trait and its           *)
(* implementations for ResolveTarget, Entry, Value and Expr) and the       *)
(* Locale (src/src/context.rs: add_resource, localize, localize_data).     *)
(*                                                                         *)
(* The parser and the serde encoder/decoder are external: a resource text  *)
(* is represented by what Parser::parse returns for it (a parse error or   *)
(* the ordered list of entries), runtime data by the data::Data value the  *)
(* encoder produces, and the result of localize by the data::Map handed    *)
(* to the decoder.  f64 numbers are modelled on the integers.              *)
(***************************************************************************)
EXTENDS Integers, Sequences, FiniteSets, TLC

VARIABLES
    resources,  \* Locale.resources: the environment, identifier -> Entry
    added,      \* history: the sources add_resource compiled into resources, in order
    call        \* the last call made, with its arguments and what it returned

vars == <<resources, added, call>>

(***************************************************************************)
(* Bounds of the model.                                                    *)
(***************************************************************************)
\* depth of nested resolve / resolve_data calls the model follows before it
\* reports a stack overflow
MaxFuel == 24
\* number of successful add_resource calls on one Locale
MaxAdds == 2
\* number of arguments of a call expression
MaxArgs == 3
MaxDepth == 3
MaxChain == 2

(***************************************************************************)
(* Option<T>: None is the empty sequence, Some(x) the one-element one.     *)
(***************************************************************************)
None == <<>>
Some(x) == <<x>>

(***************************************************************************)
(* data::Data, the runtime value.                                          *)
(***************************************************************************)
Null == [d |-> "Null"]
Bool(b) == [d |-> "Bool", b |-> b]
Num(n) == [d |-> "Num", n |-> n]
DStr(s) == [d |-> "Str", s |-> s]
Map(m) == [d |-> "Map", m |-> m]

\* Data::get: the value under a key of a mapping, None for any other kind
DataGet(data, name) ==
    IF data.d = "Map" /\ name \in DOMAIN data.m THEN Some(data.m[name]) ELSE None

\* format!("{}", n) for a whole-valued f64: decimal digits, '-' when negative
NumToStr(n) == ToString(n)

(***************************************************************************)
(* The parser's tree: Value, Expr, Attr, Entry.                            *)
(***************************************************************************)
Str(s) == [v |-> "Str", s |-> s]
ComplexStr(exprs) == [v |-> "ComplexStr", exprs |-> exprs]
Hash(map, def_key, def_index) ==
    [v |-> "Hash", map |-> map, def_key |-> def_key, def_index |-> def_index]

ValExpr(val) == [x |-> "ValExpr", val |-> val]
NumExpr(n) == [x |-> "NumExpr", n |-> n]
BinExpr(left, op, right) == [x |-> "BinExpr", left |-> left, op |-> op, right |-> right]
UnExpr(op, expr) == [x |-> "UnExpr", op |-> op, expr |-> expr]
VarExpr(name) == [x |-> "VarExpr", name |-> name]
IdentExpr(ident) == [x |-> "IdentExpr", ident |-> ident]
CondExpr(cond, consequent, alt) ==
    [x |-> "CondExpr", cond |-> cond, consequent |-> consequent, alt |-> alt]
CallExpr(callee, args) == [x |-> "CallExpr", callee |-> callee, args |-> args]
PropExpr(parent, prop, access) ==
    [x |-> "PropExpr", parent |-> parent, prop |-> prop, access |-> access]
AttrExpr(parent, prop, access) ==
    [x |-> "AttrExpr", parent |-> parent, prop |-> prop, access |-> access]

Attr(id, value, indices) == [id |-> id, value |-> value, indices |-> indices]

Comment(text) == [e |-> "Comment", text |-> text]
Macro(id, arg_names, body) ==
    [e |-> "Macro", id |-> id, arg_names |-> arg_names, body |-> body]
Entity(id, value, indices, attrs) ==
    [e |-> "Entity", id |-> id, value |-> value, indices |-> indices, attrs |-> attrs]

(***************************************************************************)
(* ResolveResult: Ok(Entry | Value | Data) or Err(ResolveError).  A panic  *)
(* and the exhaustion of the call stack end the process; they are kept as  *)
(* two further outcomes.                                                   *)
(***************************************************************************)
TEntry(en) == [r |-> "Entry", entry |-> en]
TValue(val) == [r |-> "Value", value |-> val]
TData(data) == [r |-> "Data", data |-> data]
Err(err) == [r |-> "Err", err |-> err]
Panic == [r |-> "Panic"]
Overflow == [r |-> "Overflow"]
\* an f64 outside the numbers the model represents (a quotient that is not whole,
\* a division by zero, a remainder of negative numbers)
Unrepresented == [r |-> "Unrepresented"]

WrongType == [k |-> "WrongType"]
WrongNumberOfArgs == [k |-> "WrongNumberOfArgs"]
MissingIndex == [k |-> "MissingIndex"]
MissingAttr == [k |-> "MissingAttr"]
MissingVar(name) == [k |-> "MissingVar", name |-> name]
MissingIdent(name) == [k |-> "MissingIdent", name |-> name]

\* the outcome is not Ok(..)
Failed(res) == res.r \in {"Err", "Panic", "Overflow", "Unrepresented"}

(***************************************************************************)
(* ResolveContext.                                                         *)
(***************************************************************************)
NewContext(env, data) == [env |-> env, data |-> data, locals |-> None, index |-> None]

with_locals(ctx, locals) ==
    [env |-> ctx.env, data |-> ctx.data, locals |-> Some(locals), index |-> None]

with_index(ctx, index) ==
    [env |-> ctx.env, data |-> ctx.data, locals |-> ctx.locals, index |-> index]

(***************************************************************************)
(* compile and add_default_indices.                                        *)
(***************************************************************************)
\* add_default_indices handing the whole chain down to the branches
RECURSIVE AddDefaultIndicesWholeChain(_, _)
AddDefaultIndicesWholeChain(value, indices) ==
    IF value.v = "Hash" /\ indices # <<>>
    THEN [value EXCEPT
            !.map = [k \in DOMAIN value.map |->
                        AddDefaultIndicesWholeChain(value.map[k], indices)],
            !.def_index = Some(Head(indices))]
    ELSE value

RECURSIVE add_default_indices(_, _)
add_default_indices(value, indices) ==
    IF value.v = "Hash"
    THEN IF indices # <<>>
         THEN [value EXCEPT
                 !.map = [k \in DOMAIN value.map |->
                             add_default_indices(value.map[k], Tail(indices))],
                 !.def_index = Some(Head(indices))]
         ELSE value
    ELSE value

\* the fix-up compile applies to a value that has a selector-index chain
FixValue(value, indices) ==
    IF value.v = "Hash" /\ Len(indices) > 0
    THEN add_default_indices(value, indices)
    ELSE value

FixEntity(entry) ==
    [entry EXCEPT
       !.value = FixValue(entry.value, entry.indices),
       !.attrs = [i \in DOMAIN entry.attrs |->
                    [entry.attrs[i] EXCEPT
                       !.value = FixValue(entry.attrs[i].value, entry.attrs[i].indices)]]]

\* map.insert(id, entry)
Insert(map, id, entry) == [k \in DOMAIN map \cup {id} |-> IF k = id THEN entry ELSE map[k]]

RECURSIVE CompileLoop(_, _, _)
CompileLoop(entries, i, map) ==
    IF i > Len(entries) THEN map
    ELSE LET entry == entries[i] IN
         CASE entry.e = "Comment" -> CompileLoop(entries, i + 1, map)
           [] entry.e = "Macro" -> CompileLoop(entries, i + 1, Insert(map, entry.id, entry))
           [] entry.e = "Entity" ->
                CompileLoop(entries, i + 1, Insert(map, entry.id, FixEntity(entry)))

\* a source text is given by the parser's answer: [ok, entries]
compile(source) ==
    IF source.ok THEN [ok |-> TRUE, map |-> CompileLoop(source.entries, 1, <<>>)]
    ELSE [ok |-> FALSE, map |-> <<>>]

(***************************************************************************)
(* The resolver.  Every operator takes the number of nested calls left     *)
(* before the stack is exhausted.                                          *)
(***************************************************************************)
RECURSIVE Expr_resolve(_, _, _)
RECURSIVE Value_resolve(_, _, _)
RECURSIVE ResolveTarget_resolve_data(_, _, _)
RECURSIVE ComplexStrLoop(_, _, _, _, _)
RECURSIVE CallArgsLoop(_, _, _, _, _, _)

\* an entity that resolves to itself
EntryResolveItself(entry, ctx) ==
    IF entry.e = "Entity" THEN TEntry(entry) ELSE TData(Null)

\* impl Resolve for parser::Entry
Entry_resolve(entry, ctx) ==
    IF entry.e = "Entity" THEN TValue(entry.value) ELSE TData(Null)

\* impl Resolve for ResolveTarget
ResolveTarget_resolve(target, ctx, fuel) ==
    IF fuel = 0 THEN Overflow
    ELSE CASE target.r = "Data" -> TData(target.data)
           [] target.r = "Entry" -> Entry_resolve(target.entry, ctx)
           [] target.r = "Value" -> Value_resolve(target.value, ctx, fuel - 1)

\* Resolve::resolve_data after its first step gave res
Continue(res, ctx, fuel) ==
    CASE res.r = "Data" -> res
      [] res.r \in {"Entry", "Value"} -> ResolveTarget_resolve_data(res, ctx, fuel)
      [] OTHER -> res

ResolveTarget_resolve_data(target, ctx, fuel) ==
    IF fuel = 0 THEN Overflow
    ELSE Continue(ResolveTarget_resolve(target, ctx, fuel - 1), ctx, fuel - 1)

Expr_resolve_data(expr, ctx, fuel) ==
    IF fuel = 0 THEN Overflow
    ELSE Continue(Expr_resolve(expr, ctx, fuel - 1), ctx, fuel - 1)

Value_resolve_data(value, ctx, fuel) ==
    IF fuel = 0 THEN Overflow
    ELSE Continue(Value_resolve(value, ctx, fuel - 1), ctx, fuel - 1)

Entry_resolve_data(entry, ctx, fuel) ==
    IF fuel = 0 THEN Overflow
    ELSE Continue(Entry_resolve(entry, ctx), ctx, fuel - 1)

\* the loop of the ComplexStr arm: vec holds the pieces pushed so far
ComplexStrLoop(exprs, i, vec, ctx, fuel) ==
    IF i > Len(exprs) THEN TData(DStr(vec))
    ELSE LET res == Expr_resolve_data(exprs[i], ctx, fuel) IN
         IF Failed(res) THEN res
         ELSE CASE res.data.d = "Str" ->
                     ComplexStrLoop(exprs, i + 1, vec \o res.data.s, ctx, fuel)
                [] res.data.d = "Num" ->
                     ComplexStrLoop(exprs, i + 1, vec \o NumToStr(res.data.n), ctx, fuel)
                [] OTHER -> Err(WrongType)

\* (mutant) the literal default key is tried before the context's selector key
HashResolveDefaultFirst(value, ctx, fuel) ==
    IF value.def_key # None /\ value.def_key[1] \in DOMAIN value.map
    THEN TValue(value.map[value.def_key[1]])
    ELSE IF ctx.index # None /\ ctx.index[1] \in DOMAIN value.map
    THEN TValue(value.map[ctx.index[1]])
    ELSE IF value.def_index # None
    THEN LET res == Expr_resolve_data(value.def_index[1], ctx, fuel) IN
         IF Failed(res) THEN res
         ELSE IF res.data.d = "Str"
         THEN IF res.data.s \in DOMAIN value.map
              THEN TValue(value.map[res.data.s])
              ELSE Err(MissingIndex)
         ELSE Err(WrongType)
    ELSE Err(MissingIndex)

\* the Hash arm of impl Resolve for parser::Value
HashResolve(value, ctx, fuel) ==
    IF ctx.index # None /\ ctx.index[1] \in DOMAIN value.map
    THEN TValue(value.map[ctx.index[1]])
    ELSE IF value.def_key # None /\ value.def_key[1] \in DOMAIN value.map
    THEN TValue(value.map[value.def_key[1]])
    ELSE IF value.def_index # None
    THEN LET res == Expr_resolve_data(value.def_index[1], ctx, fuel) IN
         IF Failed(res) THEN res
         ELSE IF res.data.d = "Str"
         THEN IF res.data.s \in DOMAIN value.map
              THEN TValue(value.map[res.data.s])
              ELSE Err(MissingIndex)
         ELSE Err(WrongType)
    ELSE Err(MissingIndex)

\* impl Resolve for parser::Value
Value_resolve(value, ctx, fuel) ==
    IF fuel = 0 THEN Overflow
    ELSE CASE value.v = "Str" -> TData(DStr(value.s))
           [] value.v = "ComplexStr" -> ComplexStrLoop(value.exprs, 1, "", ctx, fuel - 1)
           [] value.v = "Hash" -> HashResolve(value, ctx, fuel - 1)

\* the operator table of the BinExpr arm
BinOp(op, l, r) ==
    CASE l.d = "Num" /\ r.d = "Num" /\ op = "BiAdd" -> TData(Num(l.n + r.n))
      [] l.d = "Num" /\ r.d = "Num" /\ op = "BiSub" -> TData(Num(l.n - r.n))
      [] l.d = "Num" /\ r.d = "Num" /\ op = "BiMul" -> TData(Num(l.n * r.n))
      [] l.d = "Num" /\ r.d = "Num" /\ op = "BiDiv" ->
           IF r.n > 0 /\ l.n >= 0 /\ l.n % r.n = 0
           THEN TData(Num(l.n \div r.n)) ELSE Unrepresented
      [] l.d = "Num" /\ r.d = "Num" /\ op = "BiRem" ->
           IF r.n > 0 /\ l.n >= 0 THEN TData(Num(l.n % r.n)) ELSE Unrepresented
      [] l.d = "Num" /\ r.d = "Num" /\ op = "BiLt" -> TData(Bool(l.n < r.n))
      [] l.d = "Num" /\ r.d = "Num" /\ op = "BiLe" -> TData(Bool(l.n <= r.n))
      [] l.d = "Num" /\ r.d = "Num" /\ op = "BiGt" -> TData(Bool(l.n > r.n))
      [] l.d = "Num" /\ r.d = "Num" /\ op = "BiGe" -> TData(Bool(l.n >= r.n))
      [] l.d = "Bool" /\ r.d = "Bool" /\ op = "BiAnd" -> TData(Bool(l.b /\ r.b))
      [] l.d = "Bool" /\ r.d = "Bool" /\ op = "BiOr" -> TData(Bool(l.b \/ r.b))
      [] l.d = "Bool" /\ r.d = "Bool" /\ op = "BiEq" -> TData(Bool(l.b = r.b))
      [] l.d = "Str" /\ r.d = "Str" /\ op = "BiEq" -> TData(Bool(l.s = r.s))
      [] l.d = "Num" /\ r.d = "Num" /\ op = "BiEq" -> TData(Bool(l.n = r.n))
      [] l.d = "Bool" /\ r.d = "Bool" /\ op = "BiNe" -> TData(Bool(l.b = r.b))
      [] l.d = "Str" /\ r.d = "Str" /\ op = "BiNe" -> TData(Bool(l.s = r.s))
      [] l.d = "Num" /\ r.d = "Num" /\ op = "BiNe" -> TData(Bool(l.n # r.n))
      [] OTHER -> Err(WrongType)

\* the BinExpr arm deciding and/or by the left operand where it can
BinResolveShortCircuit(expr, ctx, fuel) ==
    LET left == Expr_resolve_data(expr.left, ctx, fuel) IN
    IF Failed(left) THEN left
    ELSE IF expr.op = "BiAnd" /\ left.data = Bool(FALSE) THEN TData(Bool(FALSE))
    ELSE IF expr.op = "BiOr" /\ left.data = Bool(TRUE) THEN TData(Bool(TRUE))
    ELSE LET right == Expr_resolve_data(expr.right, ctx, fuel) IN
         IF Failed(right) THEN right
         ELSE BinOp(expr.op, left.data, right.data)

\* the BinExpr arm: try! on the left operand, then on the right one, then the
\* operator table
BinResolve(expr, ctx, fuel) ==
    LET left == Expr_resolve_data(expr.left, ctx, fuel) IN
    IF Failed(left) THEN left
    ELSE LET right == Expr_resolve_data(expr.right, ctx, fuel) IN
         IF Failed(right) THEN right
         ELSE BinOp(expr.op, left.data, right.data)

\* the operator table of the UnExpr arm
UnOp(op, data) ==
    CASE op = "UnAdd" /\ data.d = "Num" -> TData(Num(data.n))
      [] op = "UnSub" /\ data.d = "Num" -> TData(Num(0 - data.n))
      [] op = "UnNot" /\ data.d = "Bool" -> TData(Bool(~data.b))
      [] OTHER -> Err(WrongType)

\* (mutant) a missing variable resolves to the absent value
VarResolveNull(name, ctx) ==
    LET local == IF ctx.locals = None THEN None ELSE DataGet(ctx.locals[1], name) IN
    IF local # None THEN TData(local[1])
    ELSE LET d == DataGet(ctx.data, name) IN
         IF d # None THEN TData(d[1]) ELSE TData(Null)

\* the VarExpr arm: the locals of the macro call first, then the caller's data
VarResolve(name, ctx) ==
    LET local == IF ctx.locals = None THEN None ELSE DataGet(ctx.locals[1], name) IN
    IF local # None THEN TData(local[1])
    ELSE LET d == DataGet(ctx.data, name) IN
         IF d # None THEN TData(d[1]) ELSE Err(MissingVar(name))

\* (mutant) a lookup that does not find the entries with the private prefix
IdentResolvePublicOnly(ident, ctx) ==
    IF ident \in DOMAIN ctx.env /\ Head(ident) # "_"
    THEN TEntry(ctx.env[ident]) ELSE Err(MissingIdent(ident))

\* the IdentExpr arm
IdentResolve(ident, ctx) ==
    IF ident \in DOMAIN ctx.env THEN TEntry(ctx.env[ident]) ELSE Err(MissingIdent(ident))

\* the loop of the CallExpr arm that resolves and binds the arguments
CallArgsLoop(arg_names, args, i, map, ctx, fuel) ==
    IF i > Len(arg_names) THEN TData(Map(map))
    ELSE IF arg_names[i].x # "VarExpr" THEN Panic
    ELSE LET res == Expr_resolve_data(args[i], ctx, fuel) IN
         IF Failed(res) THEN res
         ELSE CallArgsLoop(arg_names, args, i + 1,
                           Insert(map, arg_names[i].name, res.data), ctx, fuel)

\* (mutant) the arguments are resolved before their number is compared
CallResolveArgsFirst(expr, ctx, fuel) ==
    IF expr.callee.x # "IdentExpr" THEN Panic
    ELSE LET ident == expr.callee.ident IN
         IF ident \in DOMAIN ctx.env /\ ctx.env[ident].e = "Macro"
         THEN LET entry == ctx.env[ident]
                  n == IF Len(expr.args) < Len(entry.arg_names)
                       THEN Len(expr.args) ELSE Len(entry.arg_names)
                  locals == CallArgsLoop(SubSeq(entry.arg_names, 1, n),
                                         SubSeq(expr.args, 1, n), 1, <<>>, ctx, fuel)
              IN  IF Failed(locals) THEN locals
                  ELSE IF Len(expr.args) = Len(entry.arg_names)
                  THEN Expr_resolve(entry.body, with_locals(ctx, locals.data), fuel)
                  ELSE Err(WrongNumberOfArgs)
         ELSE IF ident \in DOMAIN ctx.env THEN Err(WrongType)
         ELSE Err(MissingIdent(ident))

\* the CallExpr arm
CallResolve(expr, ctx, fuel) ==
    IF expr.callee.x # "IdentExpr" THEN Panic
    ELSE LET ident == expr.callee.ident IN
         IF ident \notin DOMAIN ctx.env THEN Err(MissingIdent(ident))
         ELSE LET entry == ctx.env[ident] IN
              IF entry.e # "Macro" THEN Err(WrongType)
              ELSE IF Len(expr.args) = Len(entry.arg_names)
              THEN LET locals == CallArgsLoop(entry.arg_names, expr.args, 1, <<>>, ctx, fuel) IN
                   IF Failed(locals) THEN locals
                   ELSE Expr_resolve(entry.body, with_locals(ctx, locals.data), fuel)
              ELSE Err(WrongNumberOfArgs)

\* the key of a property or attribute access: Ok(Data(Str(key))) or the failure
AccessKey(prop, access, ctx, fuel) ==
    IF access = "Computed"
    THEN LET res == Expr_resolve_data(prop, ctx, fuel) IN
         IF Failed(res) THEN res
         ELSE IF res.data.d = "Str" THEN res ELSE Err(WrongType)
    ELSE IF prop.x = "IdentExpr" THEN TData(DStr(prop.ident)) ELSE Err(WrongType)

\* the PropExpr arm
PropResolve(expr, ctx, fuel) ==
    LET key == AccessKey(expr.prop, expr.access, ctx, fuel) IN
    IF Failed(key) THEN key
    ELSE LET prop == key.data.s
             parent == Expr_resolve(expr.parent, ctx, fuel) IN
         CASE Failed(parent) -> parent
           [] parent.r = "Data" ->
                IF parent.data.d = "Map"
                THEN IF prop \in DOMAIN parent.data.m
                     THEN TData(parent.data.m[prop])
                     ELSE Err(MissingIndex)
                ELSE Err(WrongType)
           [] parent.r = "Entry" ->
                LET res == Entry_resolve(parent.entry, ctx) IN
                IF res.r = "Value"
                THEN Value_resolve(res.value, with_index(ctx, Some(prop)), fuel)
                ELSE Err(WrongType)
           [] parent.r = "Value" ->
                Value_resolve(parent.value, with_index(ctx, Some(prop)), fuel)

\* the linear search of the AttrExpr arm
RECURSIVE AttrLoop(_, _, _, _, _)
AttrLoop(attrs, i, prop, ctx, fuel) ==
    IF i > Len(attrs) THEN Err(MissingAttr)
    ELSE IF attrs[i].id = prop THEN Value_resolve(attrs[i].value, ctx, fuel)
    ELSE AttrLoop(attrs, i + 1, prop, ctx, fuel)

\* the AttrExpr arm
AttrResolve(expr, ctx, fuel) ==
    LET key == AccessKey(expr.prop, expr.access, ctx, fuel) IN
    IF Failed(key) THEN key
    ELSE LET prop == key.data.s
             parent == Expr_resolve(expr.parent, ctx, fuel) IN
         CASE Failed(parent) -> parent
           [] parent.r = "Entry" /\ parent.entry.e = "Entity" ->
                AttrLoop(parent.entry.attrs, 1, prop, ctx, fuel)
           [] OTHER -> Err(WrongType)

\* impl Resolve for parser::Expr
Expr_resolve(expr, ctx, fuel) ==
    IF fuel = 0 THEN Overflow
    ELSE CASE expr.x = "ValExpr" -> TValue(expr.val)
           [] expr.x = "NumExpr" -> TData(Num(expr.n))
           [] expr.x = "BinExpr" -> BinResolve(expr, ctx, fuel - 1)
           [] expr.x = "UnExpr" ->
                LET res == Expr_resolve_data(expr.expr, ctx, fuel - 1) IN
                IF Failed(res) THEN res ELSE UnOp(expr.op, res.data)
           [] expr.x = "VarExpr" -> VarResolve(expr.name, ctx)
           [] expr.x = "IdentExpr" -> IdentResolve(expr.ident, ctx)
           [] expr.x = "CondExpr" ->
                LET cond == Expr_resolve_data(expr.cond, ctx, fuel - 1) IN
                IF Failed(cond) THEN cond
                ELSE IF cond.data.d = "Bool"
                THEN IF cond.data.b
                     THEN Expr_resolve(expr.consequent, ctx, fuel - 1)
                     ELSE Expr_resolve(expr.alt, ctx, fuel - 1)
                ELSE Err(WrongType)
           [] expr.x = "CallExpr" -> CallResolve(expr, ctx, fuel - 1)
           [] expr.x = "PropExpr" -> PropResolve(expr, ctx, fuel - 1)
           [] expr.x = "AttrExpr" -> AttrResolve(expr, ctx, fuel - 1)
           [] OTHER -> Panic

(***************************************************************************)
(* The Locale.                                                             *)
(***************************************************************************)
\* id.starts_with('_')
IsPrivate(id) == Len(id) > 0 /\ Head(id) = "_"

\* (mutant) extend that keeps the entry the map already holds
ExtendKeepsOld(map, entities) ==
    [k \in DOMAIN map \cup DOMAIN entities |->
        IF k \in DOMAIN map THEN map[k] ELSE entities[k]]

\* self.resources.extend(entities.into_iter())
Extend(map, entities) ==
    [k \in DOMAIN map \cup DOMAIN entities |->
        IF k \in DOMAIN entities THEN entities[k] ELSE map[k]]

\* the wrapping of a failed resolution by localize_data_raw; a panic and a stack
\* overflow are not caught
LocalizeErr(res) == IF res.r = "Err" THEN [r |-> "ResolveError", err |-> res.err] ELSE res

RECURSIVE LocalizeLoop(_, _, _, _)

\* (mutant) a loop that leaves out an entity that fails to resolve
RECURSIVE LocalizeLoopSkips(_, _, _, _)
LocalizeLoopSkips(order, i, map, ctx) ==
    IF i > Len(order) THEN [r |-> "Ok", map |-> map]
    ELSE LET id == order[i]
             entry == ctx.env[id] IN
         IF ~IsPrivate(id) /\ entry.e = "Entity"
         THEN LET res == Entry_resolve_data(entry, ctx, MaxFuel) IN
              IF Failed(res) THEN LocalizeLoopSkips(order, i + 1, map, ctx)
              ELSE LocalizeLoopSkips(order, i + 1, Insert(map, id, res.data), ctx)
         ELSE LocalizeLoopSkips(order, i + 1, map, ctx)

\* the loop of localize_data_raw over the entries, taken in the given order
LocalizeLoop(order, i, map, ctx) ==
    IF i > Len(order) THEN [r |-> "Ok", map |-> map]
    ELSE LET id == order[i]
             entry == ctx.env[id] IN
         IF ~IsPrivate(id) /\ entry.e = "Entity"
         THEN LET res == Entry_resolve_data(entry, ctx, MaxFuel) IN
              IF Failed(res) THEN LocalizeErr(res)
              ELSE LocalizeLoop(order, i + 1, Insert(map, id, res.data), ctx)
         ELSE LocalizeLoop(order, i + 1, map, ctx)

localize_data_raw(env, data, order) == LocalizeLoop(order, 1, <<>>, NewContext(env, data))

\* a set as a sequence, in one fixed order
RECURSIVE SetToSeq(_)
SetToSeq(S) ==
    IF S = {} THEN <<>>
    ELSE LET x == CHOOSE y \in S : TRUE IN <<x>> \o SetToSeq(S \ {x})

\* The order in which a HashMap yields its entries is unspecified.  The loop of
\* localize_data_raw depends on it only through the entry it meets first among
\* those that fail, so the orders taken are: any entry first, the others after
\* it in a fixed order.
Orders(env) ==
    IF DOMAIN env = {} THEN {<<>>}
    ELSE {<<first>> \o SetToSeq(DOMAIN env \ {first}) : first \in DOMAIN env}

(***************************************************************************)
(* The sources given to add_resource, as the parser returns them, and the  *)
(* data given to localize_data, as the encoder returns it.                 *)
(***************************************************************************)
Parsed(entries) == [ok |-> TRUE, entries |-> entries]
ParseError(entries) == [ok |-> FALSE, entries |-> entries]

\* <hi 'hello world'>
SrcHello == Parsed(<<Entity("hi", Str("hello world"), <<>>, <<>>)>>)

\* <brand 'Rust' long: 'Rust Lang'> <hi 'Hello, {{ brand::long }}!'>
SrcBrand ==
    Parsed(<<Entity("brand", Str("Rust"), <<>>, <<Attr("long", Str("Rust Lang"), <<>>)>>),
             Entity("hi", ComplexStr(<<ValExpr(Str("Hello, ")),
                                       AttrExpr(IdentExpr("brand"), IdentExpr("long"), "Static"),
                                       ValExpr(Str("!"))>>), <<>>, <<>>)>>)

\* /* plurals */ <many['zero'] { zero: 'none', one: 'one', many: 'too many' }>
\* <mail 'draft'> <mail 'Email in your inbox: {{ many.many }}.'>
SrcMany ==
    Parsed(<<Comment("plurals"),
             Entity("many", Hash([zero |-> Str("none"), one |-> Str("one"),
                                  many |-> Str("too many")], None, None),
                    <<ValExpr(Str("zero"))>>, <<>>),
             Entity("mail", Str("draft"), <<>>, <<>>),
             Entity("mail", ComplexStr(<<ValExpr(Str("Email in your inbox: ")),
                                         PropExpr(IdentExpr("many"), IdentExpr("many"), "Static"),
                                         ValExpr(Str("."))>>), <<>>, <<>>)>>)

\* <fac($n) { $n == 0 ? 1 : $n * fac($n - 1) }>
\* <factorial "Factorial of {{ $number }} is {{ fac($number) }}.">
SrcFac ==
    Parsed(<<Macro("fac", <<VarExpr("n")>>,
                   CondExpr(BinExpr(VarExpr("n"), "BiEq", NumExpr(0)),
                            NumExpr(1),
                            BinExpr(VarExpr("n"), "BiMul",
                                    CallExpr(IdentExpr("fac"),
                                             <<BinExpr(VarExpr("n"), "BiSub", NumExpr(1))>>)))),
             Entity("factorial",
                    ComplexStr(<<ValExpr(Str("Factorial of ")), VarExpr("number"),
                                 ValExpr(Str(" is ")),
                                 CallExpr(IdentExpr("fac"), <<VarExpr("number")>>),
                                 ValExpr(Str("."))>>), <<>>, <<>>)>>)

\* <_h 'help'> <h 'help'> <a "{{ _h }}"> <b "{{ h }}">
SrcHelper ==
    Parsed(<<Entity("_h", Str("help"), <<>>, <<>>),
             Entity("h", Str("help"), <<>>, <<>>),
             Entity("a", ComplexStr(<<IdentExpr("_h")>>), <<>>, <<>>),
             Entity("b", ComplexStr(<<IdentExpr("h")>>), <<>>, <<>>)>>)

\* <_h[$sel] { one: 'uno', two: 'dos' } t: 'tip'> and the same as <h ...>,
\* <a "{{ _h.two }}/{{ _h::t }}/{{ _h }}"> <b "{{ h.two }}/{{ h::t }}/{{ h }}">
HelperHash(id) ==
    Entity(id, Hash([one |-> Str("uno"), two |-> Str("dos")], None, None),
           <<VarExpr("sel")>>, <<Attr("t", Str("tip"), <<>>)>>)

HelperUse(id, helper) ==
    Entity(id, ComplexStr(<<PropExpr(IdentExpr(helper), IdentExpr("two"), "Static"),
                            ValExpr(Str("/")),
                            AttrExpr(IdentExpr(helper), IdentExpr("t"), "Static"),
                            ValExpr(Str("/")),
                            IdentExpr(helper)>>), <<>>, <<>>)

SrcHelperHash ==
    Parsed(<<HelperHash("_h"), HelperHash("h"), HelperUse("a", "_h"), HelperUse("b", "h")>>)

\* <h 'draft'> <h 'other'> <who "Hi {{ $undefined }}">
\* <pick[$flag] { yes: 'y', no: 'n' }> <sum "{{ 1 + $level }}">
SrcWho ==
    Parsed(<<Entity("h", Str("draft"), <<>>, <<>>),
             Entity("h", Str("other"), <<>>, <<>>),
             Entity("who", ComplexStr(<<ValExpr(Str("Hi ")), VarExpr("undefined")>>),
                    <<>>, <<>>),
             Entity("pick", Hash([yes |-> Str("y"), no |-> Str("n")], None, None),
                    <<VarExpr("flag")>>, <<>>),
             Entity("sum", ComplexStr(<<BinExpr(NumExpr(1), "BiAdd", VarExpr("level"))>>),
                    <<>>, <<>>)>>)

\* <hi 'broken'> <brand 'Oxide' <        (a syntax error after two entities)
SrcBroken ==
    ParseError(<<Entity("hi", Str("broken"), <<>>, <<>>),
                 Entity("brand", Str("Oxide"), <<>>, <<>>)>>)

Sources == {SrcHello, SrcBrand, SrcMany, SrcFac, SrcHelper, SrcHelperHash, SrcWho, SrcBroken}

Encoded(data) == [ok |-> TRUE, data |-> data]
EncodeError == [ok |-> FALSE, data |-> Null]

Inputs ==
    {Encoded(Map([number |-> Num(3)])),
     Encoded(Map([number |-> Num(3), sel |-> DStr("one"), undefined |-> DStr("you"),
                  flag |-> DStr("yes"), level |-> Num(2)])),
     EncodeError}

(***************************************************************************)
(* Spec: one Locale, from Locale::new on.                                  *)
(***************************************************************************)
Init ==
    /\ resources = <<>>
    /\ added = <<>>
    /\ call = [op |-> "new"]

\* add_resource keeping the entries parsed before the syntax error
AddResourcePartial(source) ==
    /\ Len(added) < MaxAdds
    /\ LET entities == compile(source) IN
       IF entities.ok
       THEN /\ resources' = Extend(resources, entities.map)
            /\ added' = Append(added, source)
            /\ call' = [op |-> "add_resource", source |-> source, res |-> [r |-> "Ok"]]
       ELSE /\ call' = [op |-> "add_resource", source |-> source,
                        res |-> [r |-> "ParseError"]]
            /\ resources' = Extend(resources, CompileLoop(source.entries, 1, <<>>))
            /\ UNCHANGED added

\* Locale::add_resource
add_resource(source) ==
    /\ Len(added) < MaxAdds
    /\ LET entities == compile(source) IN
       IF entities.ok
       THEN /\ resources' = Extend(resources, entities.map)
            /\ added' = Append(added, source)
            /\ call' = [op |-> "add_resource", source |-> source, res |-> [r |-> "Ok"]]
       ELSE /\ call' = [op |-> "add_resource", source |-> source,
                        res |-> [r |-> "ParseError"]]
            /\ UNCHANGED <<resources, added>>

\* Locale::localize
localize ==
    /\ \E order \in Orders(resources) :
          call' = [op |-> "localize", data |-> Null, order |-> order,
                   res |-> localize_data_raw(resources, Null, order)]
    /\ UNCHANGED <<resources, added>>

\* Locale::localize_data
localize_data(input) ==
    /\ IF input.ok
       THEN \E order \in Orders(resources) :
               call' = [op |-> "localize", data |-> input.data, order |-> order,
                        res |-> localize_data_raw(resources, input.data, order)]
       ELSE call' = [op |-> "localize_data", res |-> [r |-> "EncodeError"]]
    /\ UNCHANGED <<resources, added>>

Next ==
    \/ \E source \in Sources : add_resource(source)
    \/ localize
    \/ \E input \in Inputs : localize_data(input)

Spec == Init /\ [][Next]_vars

(***************************************************************************)
(* SpecResolve: the resolver as a function.  Init draws a node (an         *)
(* expression, a value or an entry) and a context; the actions apply       *)
(* Resolve::resolve and Resolve::resolve_data to it, as tests::test_compile*)
(* does with the entity of a compiled source.                              *)
(***************************************************************************)
ExprNode(expr) == [n |-> "Expr", expr |-> expr]
ValueNode(value) == [n |-> "Value", value |-> value]
EntryNode(entry) == [n |-> "Entry", entry |-> entry]

Case(node, ctx) == [node |-> node, ctx |-> ctx]

\* a context as the resolver builds them: ResolveContext::new, then with_locals
\* and with_index as given
Context(env, data, locals, index) ==
    LET new == NewContext(env, data)
        inner == IF locals = None THEN new ELSE with_locals(new, locals[1])
    IN  IF index = None THEN inner ELSE with_index(inner, index)

\* <brand 'Rust' long: 'Rust Lang' short: 'Rs' long: 'Rust Language'>
\* <none() { 0 }> <one($a) { $a }> <two($a, $b) { $a - $b }>
SrcBase ==
    Parsed(<<Entity("brand", Str("Rust"), <<>>,
                    <<Attr("long", Str("Rust Lang"), <<>>),
                      Attr("short", Str("Rs"), <<>>),
                      Attr("long", Str("Rust Language"), <<>>)>>),
             Macro("none", <<>>, NumExpr(0)),
             Macro("one", <<VarExpr("a")>>, VarExpr("a")),
             Macro("two", <<VarExpr("a"), VarExpr("b")>>,
                   BinExpr(VarExpr("a"), "BiSub", VarExpr("b")))>>)

\* the environment compile builds from the base source and further entries
EnvWith(entries) == compile(Parsed(SrcBase.entries \o entries)).map

(* Hashes: <e[chain] { *def_key, branches }> for every set of branches, default
   key and default selector below, resolved under every selector key. *)
HashKeys == {"a", "b", "c"}
Branch(k) == Str("<" \o k \o ">")
HashMaps == {[k \in K |-> Branch(k)] : K \in (SUBSET HashKeys) \ {{}}}
HashDefKeys == {None} \cup {Some(k) : k \in HashKeys}
HashChains ==
    {<<>>, <<VarExpr("sel")>>, <<NumExpr(1)>>, <<IdentExpr("nope")>>,
     <<AttrExpr(IdentExpr("brand"), IdentExpr("short"), "Static")>>}
        \cup {<<ValExpr(Str(k))>> : k \in HashKeys}
HashData == {Null, Map([sel |-> DStr("b")])}
SelectorKeys == {None} \cup {Some(k) : k \in HashKeys}

HashEntities ==
    {Entity("e", Hash(map, def_key, None), chain, <<>>) :
        map \in HashMaps, def_key \in HashDefKeys, chain \in HashChains}

HashCases ==
    {Case(ValueNode(EnvWith(<<entity>>)["e"].value),
          Context(EnvWith(<<entity>>), data, None, index)) :
        entity \in HashEntities, data \in HashData, index \in SelectorKeys}

\* e.k and e[k] on the same entities
PropCases ==
    {Case(ExprNode(PropExpr(IdentExpr("e"), key, access)),
          Context(EnvWith(<<entity>>), data, None, None)) :
        entity \in HashEntities, data \in HashData,
        key \in {IdentExpr("a"), ValExpr(Str("b"))}, access \in {"Static", "Computed"}}

(* Calls: every callee below with every list of at most MaxArgs arguments,
   among them arguments whose resolution fails. *)
ArgExprs == {NumExpr(1), VarExpr("undefined"), IdentExpr("nope"), UnExpr("UnNot", NumExpr(1))}
ArgLists == UNION {[1..n -> ArgExprs] : n \in 0..MaxArgs}
Callees == {"none", "one", "two", "brand", "nope"}

CallCases ==
    {Case(ExprNode(CallExpr(IdentExpr(callee), args)), Context(EnvWith(<<>>), Null, None, None)) :
        callee \in Callees, args \in ArgLists}

(* Macros with bodies of several shapes, and an entity with a hash attribute:
   <show($n) { "n={{ $n }}" }>
   <plural($n) { $n == 1 ? "one" : "{{ $n }} items" }>
   <succ($n) { $n + 1 }>
   <fac($n) { $n == 0 ? 1 : $n * fac($n - 1) }>
   <outer($a) { inner($a + 1) }> <inner($b) { $a }>
   <doc 'Doc' title: { *a: "{{ $k }}", b: 'B' }>
   <title_of($k) { doc::title }> *)
MacroEntries ==
    <<Macro("show", <<VarExpr("n")>>,
            ValExpr(ComplexStr(<<ValExpr(Str("n=")), VarExpr("n")>>))),
      Macro("plural", <<VarExpr("n")>>,
            CondExpr(BinExpr(VarExpr("n"), "BiEq", NumExpr(1)),
                     ValExpr(Str("one")),
                     ValExpr(ComplexStr(<<VarExpr("n"), ValExpr(Str(" items"))>>)))),
      Macro("succ", <<VarExpr("n")>>, BinExpr(VarExpr("n"), "BiAdd", NumExpr(1))),
      SrcFac.entries[1],
      Macro("outer", <<VarExpr("a")>>,
            CallExpr(IdentExpr("inner"), <<BinExpr(VarExpr("a"), "BiAdd", NumExpr(1))>>)),
      Macro("inner", <<VarExpr("b")>>, VarExpr("a")),
      Entity("doc", Str("Doc"), <<>>,
             <<Attr("title", Hash([a |-> ComplexStr(<<VarExpr("k")>>), b |-> Str("B")],
                                  Some("a"), None), <<>>)>>),
      Macro("title_of", <<VarExpr("k")>>,
            AttrExpr(IdentExpr("doc"), IdentExpr("title"), "Static"))>>

MacroEnv == EnvWith(MacroEntries)
MacroArgs == {NumExpr(1), NumExpr(3), VarExpr("n"), ValExpr(Str("s"))}
MacroData == {Null, Map([n |-> Num(7), a |-> Num(5), k |-> DStr("short")])}

MacroCases ==
    {Case(ExprNode(CallExpr(IdentExpr(callee), <<arg>>)), Context(MacroEnv, data, None, index)) :
        callee \in {"show", "plural", "succ", "fac", "outer", "inner", "one", "title_of"},
        arg \in MacroArgs, data \in MacroData, index \in {None, Some("b")}}
    \cup
    {Case(ExprNode(CallExpr(IdentExpr("two"), <<arg1, arg2>>)),
          Context(MacroEnv, data, None, None)) :
        arg1 \in MacroArgs, arg2 \in MacroArgs, data \in MacroData}

(* Attribute accesses parent::name and parent::[name], under contexts with and
   without locals and selector key. *)
AttrParents ==
    {IdentExpr("brand"), IdentExpr("doc"), IdentExpr("one"), IdentExpr("nope"),
     ValExpr(Str("v")), VarExpr("obj"), NumExpr(1)}
AttrProps ==
    {IdentExpr("long"), IdentExpr("short"), IdentExpr("title"), IdentExpr("none"),
     ValExpr(Str("long")), VarExpr("k"), NumExpr(1)}
AttrData == {Null, Map([obj |-> Map([long |-> DStr("x")]), k |-> DStr("short")])}
AttrLocals == {None, Some(Map([k |-> DStr("long")]))}

AttrCases ==
    {Case(ExprNode(AttrExpr(parent, prop, access)), Context(MacroEnv, data, locals, index)) :
        parent \in AttrParents, prop \in AttrProps, access \in {"Static", "Computed"},
        data \in AttrData, locals \in AttrLocals, index \in {None, Some("b")}}

(* Binary expressions $l op $r over data of every kind. *)
BinOps ==
    {"BiAdd", "BiSub", "BiMul", "BiDiv", "BiRem", "BiLt", "BiLe", "BiGt", "BiGe",
     "BiAnd", "BiOr", "BiEq", "BiNe"}
BinData ==
    Map([t |-> Bool(TRUE), f |-> Bool(FALSE), s |-> DStr("x"), u |-> DStr("y"),
         i |-> Num(1), j |-> Num(2), nul |-> Null, obj |-> Map([s |-> DStr("x")])])

BinCases ==
    {Case(ExprNode(BinExpr(VarExpr(l), op, VarExpr(r))), Context(EnvWith(<<>>), BinData, None, None)) :
        l \in DOMAIN BinData.m, r \in DOMAIN BinData.m, op \in BinOps}

(* Operands that fail: $t and $f and <operand>, $t ? <operand> : <operand>. *)
Operands ==
    {VarExpr("t"), VarExpr("f"), VarExpr("i"), VarExpr("undefined"), IdentExpr("nowhere"),
     UnExpr("UnNot", VarExpr("i")), CallExpr(IdentExpr("one"), <<>>)}
Conditions == {VarExpr("t"), VarExpr("f"), VarExpr("i"), VarExpr("undefined")}

EagerCases ==
    {Case(ExprNode(BinExpr(l, op, r)), Context(EnvWith(<<>>), BinData, None, None)) :
        l \in Operands, r \in Operands, op \in BinOps}
    \cup {Case(ExprNode(CondExpr(cond, consequent, alt)),
               Context(EnvWith(<<>>), BinData, None, None)) :
             cond \in Conditions, consequent \in Operands, alt \in Operands}

(* Environments of references: <p ...> <q ...> <r ...> <m($x) {...}>, each
   entity a string or a reference to p, q or r by identifier, call, property
   access, attribute access or default selector; every entry is resolved. *)
RefIds == {"p", "q", "r"}
RefValues ==
    {Str("a")} \cup
    UNION {{ComplexStr(<<IdentExpr(to)>>),
            ComplexStr(<<CallExpr(IdentExpr("m"), <<IdentExpr(to)>>)>>),
            ComplexStr(<<PropExpr(IdentExpr(to), IdentExpr("b"), "Static")>>),
            ComplexStr(<<AttrExpr(IdentExpr(to), IdentExpr("t"), "Static")>>)} : to \in RefIds}
RefEntities(id) ==
    {Entity(id, value, <<>>, <<>>) : value \in RefValues}
    \cup {Entity(id, Hash([a |-> Str("A"), b |-> Str("B")], None, None), <<IdentExpr(to)>>, <<>>) :
             to \in RefIds}
RefHash == Hash([a |-> Str("A"), b |-> Str("B")], Some("a"), None)
RefTargets ==
    {Entity("r", RefHash, <<>>, <<Attr("t", Str("T"), <<>>)>>),
     Entity("r", Hash([a |-> Str("A"), b |-> Str("B")], None, None), <<IdentExpr("p")>>,
            <<Attr("t", Str("T"), <<>>)>>),
     Entity("r", RefHash, <<>>, <<Attr("t", ComplexStr(<<IdentExpr("q")>>), <<>>)>>)}
RefMacros ==
    {Macro("m", <<VarExpr("x")>>, body) :
        body \in {VarExpr("x"), IdentExpr("r"), CallExpr(IdentExpr("m"), <<VarExpr("x")>>)}}
RefEnvs ==
    {compile(Parsed(<<p, q, r, m>>)).map :
        p \in RefEntities("p"), q \in RefEntities("q"), r \in RefTargets, m \in RefMacros}

\* every entry named in ids of every such environment
RefCases(ids) ==
    {Case(EntryNode(env[id]), Context(env, Null, None, None)) : env \in RefEnvs, id \in ids}

ResolveCases ==
    HashCases \cup PropCases \cup CallCases \cup MacroCases \cup AttrCases \cup BinCases
        \cup EagerCases

InitResolve ==
    /\ resources = <<>>
    /\ added = <<>>
    /\ call \in {[op |-> "case", node |-> c.node, ctx |-> c.ctx] :
                   c \in ResolveCases \cup RefCases(RefIds \cup {"m"})}

\* Resolve::resolve on a node
NodeResolve(node, ctx) ==
    CASE node.n = "Expr" -> Expr_resolve(node.expr, ctx, MaxFuel)
      [] node.n = "Value" -> Value_resolve(node.value, ctx, MaxFuel)
      [] node.n = "Entry" -> Entry_resolve(node.entry, ctx)

\* Resolve::resolve_data on a node
NodeResolveData(node, ctx) ==
    CASE node.n = "Expr" -> Expr_resolve_data(node.expr, ctx, MaxFuel)
      [] node.n = "Value" -> Value_resolve_data(node.value, ctx, MaxFuel)
      [] node.n = "Entry" -> Entry_resolve_data(node.entry, ctx, MaxFuel)

resolve ==
    /\ call.op = "case"
    /\ call' = [op |-> "resolve", node |-> call.node, ctx |-> call.ctx,
                res |-> NodeResolve(call.node, call.ctx)]
    /\ UNCHANGED <<resources, added>>

resolve_data ==
    /\ call.op = "case"
    /\ call' = [op |-> "resolve_data", node |-> call.node, ctx |-> call.ctx,
                res |-> NodeResolveData(call.node, call.ctx)]
    /\ UNCHANGED <<resources, added>>

NextResolve == resolve \/ resolve_data

SpecResolve == InitResolve /\ [][NextResolve]_vars

(***************************************************************************)
(* compile on the parser's answers for one entity: values of nested        *)
(* hashes, as the parser builds them (no default selector), and selector-   *)
(* index chains.                                                            *)
(***************************************************************************)
\* the values of at most depth levels of hashes: a branch a of any such value
\* of one level less, and a sibling b that is a string or a hash like a
RECURSIVE Nested(_)
Nested(depth) ==
    IF depth = 0 THEN {Str("leaf")}
    ELSE {Str("leaf")} \cup
         UNION {{Hash([a |-> inner, b |-> sibling], def_key, None) :
                    sibling \in {Str("other"), inner},
                    def_key \in {None, Some("a")}} :
                inner \in Nested(depth - 1)}

\* the selector-index chain [$i1][$i2]... of n expressions
Chain(n) == [d \in 1..n |-> VarExpr("i" \o ToString(d))]
Chains == {Chain(n) : n \in 0..MaxChain}

\* attributes with a chain of their own
AttrPlain == Attr("plain", Str("text"), <<>>)
AttrHash == Attr("form", Hash([a |-> Hash([a |-> Str("x")], None, None), b |-> Str("y")],
                              Some("b"), None), <<VarExpr("j")>>)
AttrLists == {<<>>, <<AttrPlain>>, <<AttrHash, AttrPlain>>}

\* <e[$i1][$i2] value attrs>, and <e 'text' title[$i1][$i2]: value>
CompileEntities ==
    {Entity("e", value, indices, attrs) :
        value \in Nested(MaxDepth), indices \in Chains, attrs \in AttrLists}
    \cup {Entity("e", Str("text"), <<VarExpr("j")>>, <<Attr("title", value, indices)>>) :
             value \in Nested(MaxDepth), indices \in Chains}

CompileSources ==
    {Parsed(<<Comment("note"), entity, Macro("m", <<>>, NumExpr(0))>>) :
        entity \in CompileEntities}

InitCompile ==
    /\ resources = <<>>
    /\ added = <<>>
    /\ call \in {[op |-> "source", source |-> source] : source \in CompileSources}

Compile ==
    /\ call.op = "source"
    /\ call' = [op |-> "compile", source |-> call.source, res |-> compile(call.source)]
    /\ UNCHANGED <<resources, added>>

NextCompile == Compile

SpecCompile == InitCompile /\ [][NextCompile]_vars

(***************************************************************************)
(* Properties of compile (checked under SpecCompile).                      *)
(***************************************************************************)
CompiledSource == call.op = "compile"

\* the parsed entity and the compiled one
ParsedEntity == call.source.entries[2]
CompiledEntity == call.res.map["e"]

\* out is the value in with, in every hash d levels of hash branches down or
\* deeper, the default selector the chain has for that level, and is in
\* otherwise
RECURSIVE Propagated(_, _, _, _)
Propagated(out, in, chain, d) ==
    IF in.v # "Hash" THEN out = in
    ELSE /\ out.v = "Hash"
         /\ DOMAIN out.map = DOMAIN in.map
         /\ out.def_key = in.def_key
         /\ out.def_index = IF d < Len(chain) THEN Some(chain[d + 1]) ELSE None
         /\ \A k \in DOMAIN in.map : Propagated(out.map[k], in.map[k], chain, d + 1)

\* the value out that compile leaves for the parsed value in with the chain
Fixed(out, in, chain) ==
    IF in.v = "Hash" /\ Len(chain) >= 1 THEN Propagated(out, in, chain, 0) ELSE out = in

\* the number of levels of hashes of a value along its branches a
RECURSIVE Levels(_)
Levels(value) == IF value.v = "Hash" THEN 1 + Levels(value.map["a"]) ELSE 0

\* C10: compile sets the default selector of every hash d levels down the
\* value of an entity, and of each attribute with the attribute's own chain,
\* to the d-th expression of the chain, and to none beyond the chain; default
\* keys, branch keys and values that are no hash stay, and so does an entity
\* with an empty chain or a value that is no hash.
C10_DefaultIndices ==
    CompiledSource =>
        /\ call.res.ok
        /\ CompiledEntity.e = "Entity" /\ CompiledEntity.id = ParsedEntity.id
        /\ CompiledEntity.indices = ParsedEntity.indices
        /\ Fixed(CompiledEntity.value, ParsedEntity.value, ParsedEntity.indices)
        /\ DOMAIN CompiledEntity.attrs = DOMAIN ParsedEntity.attrs
        /\ \A i \in DOMAIN ParsedEntity.attrs :
              /\ CompiledEntity.attrs[i].id = ParsedEntity.attrs[i].id
              /\ CompiledEntity.attrs[i].indices = ParsedEntity.attrs[i].indices
              /\ Fixed(CompiledEntity.attrs[i].value, ParsedEntity.attrs[i].value,
                       ParsedEntity.attrs[i].indices)
        /\ ((ParsedEntity.value.v # "Hash" \/ ParsedEntity.indices = <<>>)
               /\ \A i \in DOMAIN ParsedEntity.attrs :
                     ParsedEntity.attrs[i].value.v # "Hash" \/ ParsedEntity.attrs[i].indices = <<>>)
              => CompiledEntity = ParsedEntity

\* three levels of hashes with sibling hashes under a chain of two, and an
\* attribute hash of two levels under its own chain of one
C10_Witness ==
    /\ CompiledSource
    /\ Levels(ParsedEntity.value) = 3 /\ Len(ParsedEntity.indices) = 2
    /\ ParsedEntity.value.map["b"].v = "Hash"
    /\ CompiledEntity.value.def_index = Some(VarExpr("i1"))
    /\ CompiledEntity.value.map["b"].def_index = Some(VarExpr("i2"))
    /\ CompiledEntity.value.map["a"].map["a"].def_index = None
    /\ Len(ParsedEntity.attrs) = 2
    /\ CompiledEntity.attrs[1].value.def_index = Some(VarExpr("j"))
    /\ CompiledEntity.attrs[1].value.map["a"].def_index = None

(***************************************************************************)
(* Properties of the resolver (checked under SpecResolve).                 *)
(***************************************************************************)
Stepped == call.op = "resolve"
Resolved == call.op = "resolve_data"
OnExpr(x) == call.op # "new" /\ call.node.n = "Expr" /\ call.node.expr.x = x
HashStep == Stepped /\ call.node.n = "Value" /\ call.node.value.v = "Hash"

\* the value the default-selector expression of a hash fully resolves to
Selector(hash, ctx) == Expr_resolve_data(hash.def_index[1], ctx, MaxFuel)

\* the candidate of each priority, when the hash has a branch for it
ByIndex(hash, ctx) ==
    IF ctx.index # None /\ ctx.index[1] \in DOMAIN hash.map THEN ctx.index ELSE None
ByDefKey(hash) ==
    IF hash.def_key # None /\ hash.def_key[1] \in DOMAIN hash.map THEN hash.def_key ELSE None
BySelector(hash, ctx) ==
    IF hash.def_index = None THEN None
    ELSE LET sel == Selector(hash, ctx) IN
         IF sel.r = "Data" /\ sel.data.d = "Str" /\ sel.data.s \in DOMAIN hash.map
         THEN Some(sel.data.s) ELSE None

\* the key of the branch the priority order selects (None: no branch)
SelectedKey(hash, ctx) ==
    IF ByIndex(hash, ctx) # None THEN ByIndex(hash, ctx)
    ELSE IF ByDefKey(hash) # None THEN ByDefKey(hash)
    ELSE BySelector(hash, ctx)

\* the candidate keys of a higher priority than the one that selected
HigherCandidates(hash, ctx) ==
    IF ByIndex(hash, ctx) # None THEN {}
    ELSE IF ByDefKey(hash) # None THEN {ctx.index[i] : i \in DOMAIN ctx.index}
    ELSE {ctx.index[i] : i \in DOMAIN ctx.index}
            \cup {hash.def_key[i] : i \in DOMAIN hash.def_key}

\* the hash with the branch j removed, and with the branch j added or changed
WithoutBranch(hash, j) ==
    [hash EXCEPT !.map = [k \in DOMAIN hash.map \ {j} |-> hash.map[k]]]
WithBranch(hash, j) ==
    [hash EXCEPT !.map = [k \in DOMAIN hash.map \cup {j} |->
                             IF k = j THEN Str("changed") ELSE hash.map[k]]]

\* changing a branch that is neither the selected one nor a candidate of a
\* higher priority leaves the selection as it is
UnrelatedBranches(hash, ctx) ==
    LET key == SelectedKey(hash, ctx) IN
    key # None =>
       \A j \in (HashKeys \cup {"z"}) \ ({key[1]} \cup HigherCandidates(hash, ctx)) :
          /\ Value_resolve(WithoutBranch(hash, j), ctx, MaxFuel) = TValue(hash.map[key[1]])
          /\ Value_resolve(WithBranch(hash, j), ctx, MaxFuel) = TValue(hash.map[key[1]])

\* e.k and e[k], k a literal key: the key asked for
AccessedKey(expr) ==
    IF expr.access = "Static" /\ expr.prop.x = "IdentExpr" THEN Some(expr.prop.ident)
    ELSE IF expr.access = "Computed" /\ expr.prop.x = "ValExpr" /\ expr.prop.val.v = "Str"
    THEN Some(expr.prop.val.s)
    ELSE None

\* a property access on the entity e, whose value is a hash with a branch k,
\* yields the branch k
PropertyAccess ==
    (Stepped /\ OnExpr("PropExpr")) =>
        LET expr == call.node.expr
            key == AccessedKey(expr)
            hash == call.ctx.env["e"].value
        IN  (key # None /\ key[1] \in DOMAIN hash.map) => call.res = TValue(hash.map[key[1]])

\* C2 as stated: the single step of a hash yields the branch of the selector
\* key, else of the default key, else of the resolved default selector, else
\* fails with missing-selector; unrelated branches do not matter; e.k yields k.
C2_PriorityOrMissingSelector ==
    /\ HashStep =>
          LET hash == call.node.value
              key == SelectedKey(hash, call.ctx)
          IN  /\ call.res = IF key # None THEN TValue(hash.map[key[1]])
                            ELSE Err(MissingIndex)
              /\ UnrelatedBranches(hash, call.ctx)
    /\ PropertyAccess

\* C2, amended: as stated, except that when neither the selector key nor the
\* default key selects and there is a default selector, a failure of its
\* resolution is the result and a value that is no string fails with wrong-type.
C2_Priority ==
    /\ HashStep =>
          LET hash == call.node.value
              key == SelectedKey(hash, call.ctx)
              tried == ByIndex(hash, call.ctx) = None /\ ByDefKey(hash) = None
                          /\ hash.def_index # None
          IN  /\ call.res =
                    IF key # None THEN TValue(hash.map[key[1]])
                    ELSE IF tried /\ Failed(Selector(hash, call.ctx))
                    THEN Selector(hash, call.ctx)
                    ELSE IF tried /\ Selector(hash, call.ctx).data.d # "Str"
                    THEN Err(WrongType)
                    ELSE Err(MissingIndex)
              /\ UnrelatedBranches(hash, call.ctx)
    /\ PropertyAccess

\* the resolved default selector $sel chose the branch b of a hash that has
\* a selector key and a default key without a branch, and other branches
C2_Witness ==
    /\ HashStep
    /\ call.ctx.index # None /\ call.node.value.def_key # None
    /\ call.node.value.def_index = Some(VarExpr("sel"))
    /\ Cardinality(DOMAIN call.node.value.map) = 2
    /\ call.res = TValue(Branch("b"))

\* the call expression of the last call names a macro of the environment
MacroCall ==
    /\ OnExpr("CallExpr")
    /\ call.node.expr.callee.x = "IdentExpr"
    /\ call.node.expr.callee.ident \in DOMAIN call.ctx.env
    /\ call.ctx.env[call.node.expr.callee.ident].e = "Macro"

Callee == call.ctx.env[call.node.expr.callee.ident]
Arity == Len(call.node.expr.args) = Len(Callee.arg_names)

\* C3: a call of a macro with another number of arguments than it has
\* parameters fails with wrong-argument-count, whatever the arguments are.
C3_WrongNumberOfArgs ==
    ((Stepped \/ Resolved) /\ MacroCall /\ ~Arity) => call.res = Err(WrongNumberOfArgs)

\* two arguments for the macro of one parameter, the first an unbound variable
C3_Witness ==
    /\ Resolved /\ MacroCall
    /\ Len(Callee.arg_names) = 1 /\ Len(call.node.expr.args) = 2
    /\ call.node.expr.args[1] = VarExpr("undefined")
    /\ call.res = Err(WrongNumberOfArgs)

\* the fully resolved arguments of the call, by parameter name
ArgValue(i) == Expr_resolve_data(call.node.expr.args[i], call.ctx, MaxFuel)
ArgsResolve == \A i \in DOMAIN call.node.expr.args : ~Failed(ArgValue(i))
Bound ==
    Map([name \in {Callee.arg_names[i].name : i \in DOMAIN Callee.arg_names} |->
            ArgValue(CHOOSE i \in DOMAIN Callee.arg_names : Callee.arg_names[i].name = name).data])

\* the context of the body of the called macro
BodyCtx == with_locals(call.ctx, Bound)

\* C6: a call with as many arguments as parameters resolves to what its body
\* fully resolves to with every parameter bound to the value of its argument,
\* before the caller's data, whatever the shape of the body; the locals of an
\* outer call are not those of the inner call.
C6_ParametersBound ==
    (Resolved /\ MacroCall /\ Arity /\ ArgsResolve) =>
        /\ call.res = Expr_resolve_data(Callee.body, BodyCtx, MaxFuel)
        /\ (Callee.id = "outer" /\ ~Failed(Expr_resolve_data(Callee.body.args[1], BodyCtx, MaxFuel)))
              => call.res = Expr_resolve_data(VarExpr("a"),
                                              NewContext(call.ctx.env, call.ctx.data), MaxFuel)

\* the result the claim gives the attribute access expr evaluated under ctx,
\* when its key and the single step of its parent are there
AttrKey(expr, ctx) == AccessKey(expr.prop, expr.access, ctx, MaxFuel)
AttrParent(expr, ctx) == Expr_resolve(expr.parent, ctx, MaxFuel)
AttrDefined(expr, ctx) == ~Failed(AttrKey(expr, ctx)) /\ ~Failed(AttrParent(expr, ctx))
AttrExpected(expr, ctx) ==
    LET key == AttrKey(expr, ctx).data.s
        parent == AttrParent(expr, ctx)
    IN  IF parent.r = "Entry" /\ parent.entry.e = "Entity"
        THEN LET attrs == parent.entry.attrs
                 at == {i \in DOMAIN attrs : attrs[i].id = key}
             IN  IF at = {} THEN Err(MissingAttr)
                 ELSE Value_resolve_data(attrs[CHOOSE i \in at : \A j \in at : i <= j].value,
                                         ctx, MaxFuel)
        ELSE Err(WrongType)

\* C8: an attribute access yields the first attribute of that name of the
\* entity its parent steps to, fully resolved under the context the access is
\* evaluated in (also when that is the context of a macro body), missing-
\* attribute without such an attribute, wrong-type for any other parent.
C8_AttributeAccess ==
    /\ (Resolved /\ OnExpr("AttrExpr") /\ AttrDefined(call.node.expr, call.ctx)) =>
          call.res = AttrExpected(call.node.expr, call.ctx)
    /\ (Resolved /\ MacroCall /\ Arity /\ ArgsResolve /\ Callee.body.x = "AttrExpr"
          /\ AttrDefined(Callee.body, BodyCtx)) =>
          call.res = AttrExpected(Callee.body, BodyCtx)

\* C9: on operands of the same kind bool, string or number, eq is true exactly
\* when they are equal and ne exactly when they differ; any other pair of
\* operands is a wrong-type error.
C9_EqualityOperators ==
    ((Stepped \/ Resolved) /\ OnExpr("BinExpr") /\ call.node.expr.op \in {"BiEq", "BiNe"}) =>
        LET l == call.ctx.data.m[call.node.expr.left.name]
            r == call.ctx.data.m[call.node.expr.right.name]
        IN  call.res =
               IF l.d = r.d /\ l.d \in {"Bool", "Str", "Num"}
               THEN TData(Bool(IF call.node.expr.op = "BiEq" THEN l = r ELSE l # r))
               ELSE Err(WrongType)

\* what an operand of the last call fully resolves to under the call's context
Operand(expr) == Expr_resolve_data(expr, call.ctx, MaxFuel)

\* a binary expression fails with the error of its left operand, else with
\* that of its right operand
EagerOperands ==
    ((Stepped \/ Resolved) /\ OnExpr("BinExpr")) =>
        LET left == Operand(call.node.expr.left)
            right == Operand(call.node.expr.right)
        IN  /\ Failed(left) => call.res = left
            /\ (~Failed(left) /\ Failed(right)) => call.res = right

\* a conditional is what the branch its condition chooses is
ChosenBranch ==
    (OnExpr("CondExpr") /\ ~Failed(Operand(call.node.expr.cond))
        /\ Operand(call.node.expr.cond).data.d = "Bool") =>
        LET chosen == IF Operand(call.node.expr.cond).data.b
                      THEN call.node.expr.consequent ELSE call.node.expr.alt
        IN  /\ Stepped => call.res = Expr_resolve(chosen, call.ctx, MaxFuel)
            /\ Resolved => call.res = Operand(chosen)

\* C11: a binary expression resolves its left and then its right operand
\* before it applies the operator, and/or included, so it fails with the
\* error of the left operand, else with that of the right one, also when the
\* left value decides; a conditional evaluates the chosen branch only.
C11_EagerOperands == EagerOperands /\ ChosenBranch

\* $f and $undefined fails with missing-variable though $f decides
C11_Witness ==
    /\ Resolved /\ OnExpr("BinExpr")
    /\ call.node.expr = BinExpr(VarExpr("f"), "BiAnd", VarExpr("undefined"))
    /\ call.res = Err(MissingVar("undefined"))

\* the identifiers an expression, a value, an entry mentions
RECURSIVE ExprRefs(_)
RECURSIVE ValueRefs(_)
ExprRefs(expr) ==
    CASE expr.x = "IdentExpr" -> {expr.ident}
      [] expr.x = "ValExpr" -> ValueRefs(expr.val)
      [] expr.x = "BinExpr" -> ExprRefs(expr.left) \cup ExprRefs(expr.right)
      [] expr.x = "UnExpr" -> ExprRefs(expr.expr)
      [] expr.x = "CondExpr" ->
           ExprRefs(expr.cond) \cup ExprRefs(expr.consequent) \cup ExprRefs(expr.alt)
      [] expr.x = "CallExpr" ->
           ExprRefs(expr.callee) \cup UNION {ExprRefs(expr.args[i]) : i \in DOMAIN expr.args}
      [] expr.x \in {"PropExpr", "AttrExpr"} ->
           ExprRefs(expr.parent)
              \cup (IF expr.access = "Computed" THEN ExprRefs(expr.prop) ELSE {})
      [] OTHER -> {}

ValueRefs(value) ==
    CASE value.v = "ComplexStr" -> UNION {ExprRefs(value.exprs[i]) : i \in DOMAIN value.exprs}
      [] value.v = "Hash" ->
           UNION {ValueRefs(value.map[k]) : k \in DOMAIN value.map}
              \cup UNION {ExprRefs(value.def_index[i]) : i \in DOMAIN value.def_index}
      [] OTHER -> {}

EntryRefs(entry) ==
    CASE entry.e = "Macro" -> ExprRefs(entry.body)
      [] entry.e = "Entity" ->
           ValueRefs(entry.value)
              \cup UNION {ValueRefs(entry.attrs[i].value) : i \in DOMAIN entry.attrs}
      [] OTHER -> {}

\* the entries reached from the entry id of env by one or more references
RECURSIVE ReachWithin(_, _, _)
ReachWithin(env, ids, n) ==
    IF n = 0 THEN ids
    ELSE ReachWithin(env, ids \cup UNION {EntryRefs(env[i]) \cap DOMAIN env : i \in ids}, n - 1)
Reach(env, id) == ReachWithin(env, EntryRefs(env[id]) \cap DOMAIN env, Cardinality(DOMAIN env))

\* no entry of env refers to itself, directly or transitively
Acyclic(env) == \A id \in DOMAIN env : id \notin Reach(env, id)

\* an outcome of resolve_data: a runtime value or a resolution error
Outcome(res) == res.r \in {"Data", "Err"}

\* C12: in an environment where no entry refers to itself directly or
\* transitively, resolve_data on any entry terminates with a runtime value or
\* a resolution error, and so localize terminates on that environment.
C12_AcyclicTerminates ==
    (Resolved /\ call.node.n = "Entry" /\ Acyclic(call.ctx.env)) =>
        /\ Outcome(call.res)
        /\ \A order \in Orders(call.ctx.env) :
              localize_data_raw(call.ctx.env, call.ctx.data, order).r \in {"Ok", "ResolveError"}

\* p is resolved to a value through a call of m, q, an attribute of r
C12_Witness ==
    /\ Resolved /\ call.node.n = "Entry" /\ Acyclic(call.ctx.env)
    /\ call.node.entry.e = "Entity" /\ call.node.entry.id = "p"
    /\ Reach(call.ctx.env, "p") = {"q", "r", "m"}
    /\ call.ctx.env["q"].value = ComplexStr(<<AttrExpr(IdentExpr("r"), IdentExpr("t"), "Static")>>)
    /\ call.res.r = "Data"

(***************************************************************************)
(* Properties of the Locale (checked under Spec).                          *)
(***************************************************************************)
Localized == call.op = "localize"
LocalizedOk == Localized /\ call.res.r = "Ok"

\* the context localize_data_raw built for the last call
CallCtx == NewContext(resources, call.data)

PublicIds == {id \in DOMAIN resources : ~IsPrivate(id)}
PublicEntities == {id \in PublicIds : resources[id].e = "Entity"}

\* C1 as stated: a returned output map has exactly the identifiers of the
\* environment that do not start with '_' as its keys.
C1_AllPublicIdentifiers == LocalizedOk => DOMAIN call.res.map = PublicIds

\* C1, amended: a returned output map has exactly the identifiers that do not
\* start with '_' and name an Entity as its keys (macros have no entry), each
\* with the value its entity resolves to; a call that returns a map left none out.
C1_AllPublicEntities ==
    LocalizedOk =>
        /\ DOMAIN call.res.map = PublicEntities
        /\ \A id \in PublicEntities :
              TData(call.res.map[id]) = Entry_resolve_data(resources[id], CallCtx, MaxFuel)

\* a map was returned for an environment with two public entities, a public
\* macro and a private entity
C1_Witness ==
    /\ LocalizedOk
    /\ Cardinality(PublicEntities) >= 2
    /\ \E id \in PublicIds : resources[id].e = "Macro"
    /\ \E id \in DOMAIN resources : IsPrivate(id)

\* the identifier source defines, together with its last definition there
IsDef(entry) == entry.e # "Comment"
Defines(source, id) ==
    \E i \in DOMAIN source.entries : IsDef(source.entries[i]) /\ source.entries[i].id = id
LastDefinition(source, id) ==
    LET at == {i \in DOMAIN source.entries :
                  IsDef(source.entries[i]) /\ source.entries[i].id = id}
        last == CHOOSE i \in at : \A j \in at : j <= i
    IN  source.entries[last]

\* the entry compile builds from a parsed entry
Compiled(entry) == IF entry.e = "Entity" THEN FixEntity(entry) ELSE entry

Definers(id) == {n \in DOMAIN added : Defines(added[n], id)}
LastDefiner(id) == CHOOSE n \in Definers(id) : \A m \in Definers(id) : m <= n

\* C4: the environment holds exactly the identifiers the added resources
\* define, each with the last definition of the last resource that defines it.
C4_LastDefinitionWins ==
    /\ \A id \in DOMAIN resources : Definers(id) # {}
    /\ \A n \in DOMAIN added : \A i \in DOMAIN added[n].entries :
          LET entry == added[n].entries[i] IN
          IsDef(entry) =>
             /\ entry.id \in DOMAIN resources
             /\ resources[entry.id] =
                    Compiled(LastDefinition(added[LastDefiner(entry.id)], entry.id))

\* two resources were added: the second redefines an identifier of the first
\* with another entry, leaves another identifier of the first alone, and one
\* of them defines an identifier twice
C4_Witness ==
    /\ Len(added) = 2
    /\ \E id \in DOMAIN resources :
          /\ Definers(id) = {1, 2}
          /\ Compiled(LastDefinition(added[1], id)) # resources[id]
    /\ \E id \in DOMAIN resources : Definers(id) = {1}
    /\ \E n \in {1, 2} : \E i, j \in DOMAIN added[n].entries :
          /\ i < j
          /\ IsDef(added[n].entries[i]) /\ IsDef(added[n].entries[j])
          /\ added[n].entries[i].id = added[n].entries[j].id

\* the private helper and its public twin are defined alike, and the two
\* entities that use them differ in the helper's name only
SameBut(priv, pub) ==
    /\ priv.e = "Entity" /\ pub.e = "Entity"
    /\ [priv EXCEPT !.id = pub.id] = pub

Twins ==
    /\ {"_h", "h", "a", "b"} \subseteq DOMAIN resources
    /\ SameBut(resources["_h"], resources["h"])
    /\ \E s \in {SrcHelper, SrcHelperHash} :
          /\ resources["a"] = Compiled(LastDefinition(s, "a"))
          /\ resources["b"] = Compiled(LastDefinition(s, "b"))

\* C5: no key of the output starts with '_', and the entity that refers to the
\* private helper resolves as the entity that refers to its public twin does.
C5_PrivateHelper ==
    Localized =>
        /\ call.res.r = "Ok" => \A id \in DOMAIN call.res.map : ~IsPrivate(id)
        /\ Twins =>
              /\ Entry_resolve_data(resources["a"], CallCtx, MaxFuel)
                    = Entry_resolve_data(resources["b"], CallCtx, MaxFuel)
              /\ call.res.r = "Ok" => call.res.map["a"] = call.res.map["b"]

\* a map was returned in which the entity using the private hash helper (by
\* property, attribute and plain reference) has its value
C5_Witness ==
    /\ LocalizedOk /\ Twins
    /\ resources["_h"].value.v = "Hash"
    /\ call.res.map["a"] = DStr("dos/tip/uno")

\* expressions whose resolution cannot fail
CannotFail(expr) == expr.x = "NumExpr" \/ (expr.x = "ValExpr" /\ expr.val.v = "Str")

\* the variable that the full resolution of an expression or value, outside
\* any macro call and with no selector key, evaluates before anything else
\* that can fail (None when it is not a variable)
RECURSIVE FirstVar(_)
RECURSIVE FirstVarOfValue(_)
FirstVar(expr) ==
    CASE expr.x = "VarExpr" -> Some(expr.name)
      [] expr.x = "ValExpr" -> FirstVarOfValue(expr.val)
      [] expr.x = "BinExpr" ->
           IF CannotFail(expr.left) THEN FirstVar(expr.right) ELSE FirstVar(expr.left)
      [] expr.x = "UnExpr" -> FirstVar(expr.expr)
      [] expr.x = "CondExpr" -> FirstVar(expr.cond)
      [] OTHER -> None

FirstVarOfValue(value) ==
    CASE value.v = "ComplexStr" ->
           LET at == {i \in DOMAIN value.exprs : ~CannotFail(value.exprs[i])} IN
           IF at = {} THEN None
           ELSE FirstVar(value.exprs[CHOOSE i \in at : \A j \in at : i <= j])
      [] value.v = "Hash" ->
           IF value.def_key = None /\ value.def_index # None
           THEN FirstVar(value.def_index[1]) ELSE None
      [] OTHER -> None

\* the loop of the last localize call came to evaluate the entity id: every
\* public entity before it in the order resolved
Reached(id) ==
    \E i \in DOMAIN call.order :
       /\ call.order[i] = id
       /\ \A j \in 1..(i - 1) :
             call.order[j] \in PublicEntities =>
                ~Failed(Entry_resolve_data(resources[call.order[j]], CallCtx, MaxFuel))

\* C7: when the loop evaluates a public entity whose value evaluates $x and the
\* data has no key x, the call returns resolve-error(missing-variable(x)).
C7_MissingVariable ==
    Localized =>
        \A id \in PublicEntities :
           LET x == FirstVarOfValue(resources[id].value) IN
           (x # None /\ DataGet(call.data, x[1]) = None /\ Reached(id)) =>
               call.res = [r |-> "ResolveError", err |-> MissingVar(x[1])]

\* localize() without data met the hash whose default selector is $flag
C7_Witness ==
    /\ Localized /\ call.data = Null
    /\ "pick" \in PublicEntities /\ Reached("pick")
    /\ call.res = [r |-> "ResolveError", err |-> MissingVar("flag")]

\* the data a caller may localize with
LocalizeData == {Null} \cup {input.data : input \in {i \in Inputs : i.ok}}

\* localize gives under env what it gives under the environment held
SameLocalize(env) ==
    /\ Orders(env) = Orders(resources)
    /\ \A data \in LocalizeData : \A order \in Orders(resources) :
          localize_data_raw(env, data, order) = localize_data_raw(resources, data, order)

\* C13: an add_resource that fails because the text does not parse leaves the
\* environment held as it was, without any entry of the text, those before the
\* syntax error included, and with every entry it had; a later localize gives
\* what it gave before.
C13_FailedAddKeeps ==
    [][(call'.op = "add_resource" /\ call'.res.r = "ParseError")
          => (resources' = resources /\ SameLocalize(resources'))]_vars

\* the text <hi 'broken'> <brand 'Oxide'> with a syntax error after them was
\* refused, and the hi held before is held as it was
C13_Witness ==
    /\ call.op = "add_resource" /\ call.res.r = "ParseError"
    /\ call.source.entries # <<>> /\ call.source.entries[1].id = "hi"
    /\ DOMAIN resources = {"hi"}
    /\ resources["hi"] # call.source.entries[1]
====
